---- MODULE Spec2Model ----
(***************************************************************************)
(* A model of bandits_trauma.ipynb: the UCB1 agent (ind_max, UCB1), the    *)
(* SimpleEmergency reward environment, and the two harness functions       *)
(* train_UCB1 and bandit_vs_AB.                                            *)
(*                                                                         *)
(* Numbers.  Rewards and arm values are rationals [num, den] in lowest     *)
(* terms (the code's floats, taken in exact arithmetic).  The UCB score    *)
(* needs sqrt and ln: it is computed in fixed point with unit 1/Scale.     *)
(* Scale is divisible by every denominator a mean can take within the      *)
(* bounds, so the value term of a score is exact and only the bonus is     *)
(* rounded (down, to 1/Scale).                                             *)
(***************************************************************************)
EXTENDS Integers, Sequences, FiniteSets, TLC

VARIABLES
  counts,        \* UCB1.counts : arm index (0-based) -> times updated
  values,        \* UCB1.values : arm index -> running mean reward
  arg_n,         \* the n_arms argument of the last __init__/initialize call
  arg_arm,       \* the chosen_arm argument of the last update call (0 before any)
  lastOp,        \* the last call made on the agent: "init" (the constructor),
                 \*   "initialize", "select", "update"
  err,           \* how that call ended: "none" or the exception it raised
  action,        \* what the last successful select_arm() returned (-1: nothing yet)
  reads,         \* history: select_arm() calls made in a row just now, counted up to 2
  cycle,         \* history: completed select/update pairs since (re)initialization,
                 \*   -1 once the caller left the select-then-update discipline
  fedN,          \* history: per arm, number of rewards fed to it since initialization
  fedSum,        \* history: per arm, sum of those rewards
  pc,            \* harness: position in train_UCB1 / bandit_vs_AB ("api": no harness)
  mode,          \* harness: "api", "train" or "AB"
  trials,        \* harness: the trials argument / local
  arm_labels,    \* harness: arm_labels / treatments
  i,             \* harness: loop index
  e,             \* harness: emergency_type of the current SimpleEmergency
  bandit_score,  \* bandit_vs_AB local
  AB_score,      \* bandit_vs_AB local
  score0,        \* history: <<bandit_score, AB_score>> when the current trial began
  mean,          \* SpecRules: one arm fed by update, its value kept four ways:
                 \*   [n, reward, code, inc, fcode, finc] (see MeanInit)
  base           \* history of the harness's evaluations (see BaseInit):
                 \*   [success, AB_arm, AB_success, evals]

agentVars   == <<counts, values, arg_n, arg_arm, lastOp, err, action, reads, cycle,
                 fedN, fedSum>>
harnessVars == <<pc, mode, trials, arm_labels, i, e, bandit_score, AB_score, score0,
                 base>>
vars        == <<counts, values, arg_n, arg_arm, lastOp, err, action, reads, cycle,
                 fedN, fedSum,
                 pc, mode, trials, arm_labels, i, e, bandit_score, AB_score, score0,
                 mean, base>>

----------------------------------------------------------------------------
(* Bounds *)

MaxArms   == 3     \* largest n_arms passed to UCB1(...)
MaxTotal  == 4     \* updates a caller makes before the model stops it
MaxTrials == 4     \* largest trials value the harness is run with
MaxFeed   == 6     \* rewards fed to the single arm of SpecRules

----------------------------------------------------------------------------
(* Rational arithmetic *)

RECURSIVE GCD(_, _)
GCD(a, b) == IF b = 0 THEN a ELSE GCD(b, a % b)

Abs(x) == IF x < 0 THEN -x ELSE x

Rat(n, d) ==
  LET g == GCD(Abs(n), Abs(d))
      s == IF d < 0 THEN -1 ELSE 1
  IN  [num |-> s * (n \div g), den |-> s * (d \div g)]

RatAdd(a, b) == Rat(a.num * b.den + b.num * a.den, a.den * b.den)
RatMul(a, b) == Rat(a.num * b.num, a.den * b.den)
RatLeq(a, b) == a.num * b.den <= b.num * a.den

Zero == Rat(0, 1)
One  == Rat(1, 1)

\* the rewards a caller may pass to update: 0.0, 0.5, 1.0
Rewards == {Rat(0, 1), Rat(1, 2), Rat(1, 1)}

----------------------------------------------------------------------------
(* Fixed-point sqrt and ln for the UCB bonus *)

Scale == 10080

\* math.log(t) for t = 1..16, in units of 1/Scale
LogTable == <<0, 6987, 11074, 13974, 16223, 18061, 19615, 20961,
              22148, 23210, 24171, 25048, 25855, 26602, 27297, 27948>>

RECURSIVE SqrtSearch(_, _, _)
SqrtSearch(x, lo, hi) ==
  IF lo >= hi THEN lo
  ELSE LET mid == (lo + hi + 1) \div 2
       IN  IF mid * mid <= x THEN SqrtSearch(x, mid, hi)
                             ELSE SqrtSearch(x, lo, mid - 1)

\* floor(sqrt(x))
ISqrt(x) == SqrtSearch(x, 0, 46340)

\* float value -> fixed point
ToFixed(r) == (r.num * Scale) \div r.den

----------------------------------------------------------------------------
(* Binary floating point, round to nearest, ties to even.  A Python float   *)
(* carries 53 significant bits; the model carries Precision bits.  9 and 53  *)
(* leave the same remainder modulo 4, so 1/3, 2/3, 1/5, ... round in the     *)
(* same direction as in a double: for every sequence of up to 6 rewards out  *)
(* of 0, 0.5, 1 the two update rules below differ at this precision exactly  *)
(* when they differ in doubles.                                              *)

Precision == 9

RECURSIVE Pow2(_)
Pow2(k) == IF k = 0 THEN 1 ELSE 2 * Pow2(k - 1)

\* bring a/b into [2^(Precision-1), 2^Precision): a/b * 2^e, then split it
RECURSIVE FScale(_, _, _)
FScale(a, b, ex) ==
  IF a >= Pow2(Precision) * b THEN FScale(a, 2 * b, ex - 1)
  ELSE IF a < Pow2(Precision - 1) * b THEN FScale(2 * a, b, ex + 1)
  ELSE [m |-> a \div b, rem2 |-> 2 * (a % b), b |-> b, ex |-> ex]

\* the float nearest to the rational q
FRound(q) ==
  IF q.num = 0 THEN Zero
  ELSE LET sg == IF q.num < 0 THEN -1 ELSE 1
           f  == FScale(Abs(q.num), q.den, 0)
           m  == IF f.rem2 > f.b \/ (f.rem2 = f.b /\ f.m % 2 = 1) THEN f.m + 1 ELSE f.m
       IN  IF f.ex >= 0 THEN Rat(sg * m, Pow2(f.ex))
                        ELSE Rat(sg * m * Pow2(-f.ex), 1)

RatNeg(a) == [num |-> -a.num, den |-> a.den]

----------------------------------------------------------------------------
(* ind_max and class UCB1 *)

\* len(self.counts)
NArms(c) == Cardinality(DOMAIN c)

RECURSIVE SumFrom(_, _)
SumFrom(c, arm) == IF arm >= NArms(c) THEN 0 ELSE c[arm] + SumFrom(c, arm + 1)

\* sum(self.counts)
Sum(c) == SumFrom(c, 0)

\* max(x) of a non-empty list
ListMax(x) == CHOOSE m \in {x[k] : k \in DOMAIN x} : \A k \in DOMAIN x : x[k] <= m

\* x.index(m): the first position holding m
RECURSIVE ListIndex(_, _, _)
ListIndex(x, m, k) == IF x[k] = m THEN k ELSE ListIndex(x, m, k + 1)

\* ind_max returning the last position of the maximum
RECURSIVE LastIndex(_, _, _)
LastIndex(x, m, k) == IF x[k] = m THEN k ELSE LastIndex(x, m, k - 1)

ind_maxLast(x) == LastIndex(x, ListMax(x), NArms(x) - 1)

\* ind_max counting positions from one
ind_maxOneBased(x) == ListIndex(x, ListMax(x), 0) + 1

ind_max(x) == ListIndex(x, ListMax(x), 0)

\* [0 for col in range(n_arms)]: range(n) is empty for n <= 0
initialize_counts(n_arms) == [col \in 0..(n_arms - 1) |-> 0]
\* an initialization that starts every arm at the optimistic value 1.0
initialize_valuesOnes(n_arms) == [col \in 0..(n_arms - 1) |-> One]

initialize_values(n_arms) == [col \in 0..(n_arms - 1) |-> Zero]

\* a cold-start loop that keeps the last untried arm it meets
RECURSIVE ScanUntriedLast(_, _)
ScanUntriedLast(c, arm) ==
  IF arm >= NArms(c) THEN -1
  ELSE LET later == ScanUntriedLast(c, arm + 1)
       IN  IF later # -1 THEN later
           ELSE IF c[arm] = 0 THEN arm ELSE -1

\* the cold-start loop of select_arm: first arm with count 0, -1 if it falls through
RECURSIVE ScanUntried(_, _)
ScanUntried(c, arm) ==
  IF arm >= NArms(c) THEN -1
  ELSE IF c[arm] = 0 THEN arm
  ELSE ScanUntried(c, arm + 1)

\* the exception the bonus expression raises, if any: math.log(total_counts)
\* is evaluated first, then the division by float(self.counts[arm])
BonusErr(total_counts, count) ==
  IF total_counts <= 0 THEN "ValueError"
  ELSE IF count = 0 THEN "ZeroDivisionError"
  ELSE "none"

\* a bonus that forgets the division by the arm's count
BonusNoCount(total_counts, count) == ISqrt(2 * LogTable[total_counts] * Scale)

\* math.sqrt((2 * math.log(total_counts)) / float(count)), in units of 1/Scale
Bonus(total_counts, count) ==
  ISqrt((2 * LogTable[total_counts] * Scale) \div count)

\* self.values[arm] + bonus, in units of 1/Scale
UCBScore(value, total_counts, count) == ToFixed(value) + Bonus(total_counts, count)

ucb_values(c, v) == [arm \in DOMAIN c |-> UCBScore(v[arm], Sum(c), c[arm])]

\* the first arm of the scoring loop whose bonus raises, -1 if none does
RECURSIVE ScanBonusErr(_, _)
ScanBonusErr(c, arm) ==
  IF arm >= NArms(c) THEN -1
  ELSE IF BonusErr(Sum(c), c[arm]) # "none" THEN arm
  ELSE ScanBonusErr(c, arm + 1)

\* UCB1.select_arm: [err, arm]
select_arm(c, v) ==
  LET untried == ScanUntried(c, 0)
      bad     == ScanBonusErr(c, 0)
  IN  IF untried # -1 THEN [err |-> "none", arm |-> untried]
      ELSE IF bad # -1 THEN [err |-> BonusErr(Sum(c), c[bad]), arm |-> -1]
      ELSE IF NArms(c) = 0 THEN [err |-> "ValueError", arm |-> -1]  \* max([])
      ELSE [err |-> "none", arm |-> ind_max(ucb_values(c, v))]

\* Python list indexing: which positions an index reaches
InRange(c, index)  == index >= -NArms(c) /\ index < NArms(c)
Resolve(c, index)  == IF index < 0 THEN index + NArms(c) ELSE index

\* an update rule that forgets to scale the old value down
new_valueUnscaled(n, value, reward) == RatAdd(value, RatMul(Rat(1, n), reward))

\* new_value = ((n - 1) / float(n)) * value + (1 / float(n)) * reward
new_value(n, value, reward) ==
  RatAdd(RatMul(Rat(n - 1, n), value), RatMul(Rat(1, n), reward))

\* the same expression as Python evaluates it, every operation rounded:
\* (n - 1) / float(n), its product with value, 1 / float(n), its product with
\* reward, and the sum
new_valueFloat(n, value, reward) ==
  FRound(RatAdd(FRound(RatMul(FRound(Rat(n - 1, n)), value)),
                FRound(RatMul(FRound(Rat(1, n)), reward))))

\* the incremental-mean rule value + (reward - value) / n, in exact arithmetic
incremental_mean(n, value, reward) ==
  RatAdd(value, RatMul(RatAdd(reward, RatNeg(value)), Rat(1, n)))

\* the incremental-mean rule in floats: the difference, the quotient and the sum
\* are rounded
incremental_meanFloat(n, value, reward) ==
  FRound(RatAdd(value, FRound(RatMul(FRound(RatAdd(reward, RatNeg(value))), Rat(1, n)))))

\* an update that computes n but never stores it in self.counts
updateNoCount(c, v, chosen_arm, reward) ==
  IF ~InRange(c, chosen_arm)
  THEN [err |-> "IndexError", counts |-> c, values |-> v]
  ELSE LET arm == Resolve(c, chosen_arm)
           n   == c[arm] + 1
       IN  IF n = 0
           THEN [err |-> "ZeroDivisionError", counts |-> c, values |-> v]
           ELSE [err    |-> "none",
                 counts |-> c,
                 values |-> [v EXCEPT ![arm] = new_value(n, v[arm], reward)]]

\* an update that writes the new mean into every arm's value
updateAllValues(c, v, chosen_arm, reward) ==
  IF ~InRange(c, chosen_arm)
  THEN [err |-> "IndexError", counts |-> c, values |-> v]
  ELSE LET arm == Resolve(c, chosen_arm)
           n   == c[arm] + 1
       IN  [err    |-> "none",
            counts |-> [c EXCEPT ![arm] = n],
            values |-> [a \in DOMAIN v |-> new_value(n, v[arm], reward)]]

\* UCB1.update: [err, counts, values]
update(c, v, chosen_arm, reward) ==
  IF ~InRange(c, chosen_arm)
  THEN [err |-> "IndexError", counts |-> c, values |-> v]
  ELSE LET arm == Resolve(c, chosen_arm)
           n   == c[arm] + 1
       IN  IF n = 0   \* float(n) == 0.0: the count is already stored
           THEN [err |-> "ZeroDivisionError", counts |-> [c EXCEPT ![arm] = n],
                 values |-> v]
           ELSE [err    |-> "none",
                 counts |-> [c EXCEPT ![arm] = n],
                 values |-> [v EXCEPT ![arm] = new_value(n, v[arm], reward)]]

----------------------------------------------------------------------------
(* The three calls on an agent, with the history they leave *)

DoInitialize(n_arms) ==
  /\ counts' = initialize_counts(n_arms)
  /\ values' = initialize_values(n_arms)
  /\ arg_n'  = n_arms
  /\ lastOp' = "initialize"
  /\ err'    = "none"
  /\ action' = -1
  /\ reads'  = 0
  /\ cycle'  = 0
  /\ fedN'   = [col \in 0..(n_arms - 1) |-> 0]
  /\ fedSum' = [col \in 0..(n_arms - 1) |-> Zero]
  /\ UNCHANGED arg_arm

\* a select_arm that already counts the arm it returns as pulled
DoSelectCounting ==
  LET r == select_arm(counts, values)
  IN  /\ err'    = r.err
      /\ action' = IF r.err = "none" THEN r.arm ELSE action
      /\ lastOp' = "select"
      /\ reads'  = IF reads < 2 THEN reads + 1 ELSE reads
      /\ cycle'  = IF cycle >= 0 /\ lastOp # "select" THEN cycle ELSE -1
      /\ counts' = IF r.err = "none" THEN [counts EXCEPT ![r.arm] = @ + 1] ELSE counts
      /\ UNCHANGED <<values, arg_n, arg_arm, fedN, fedSum>>

DoSelect ==
  LET r == select_arm(counts, values)
  IN  /\ err'    = r.err
      /\ action' = IF r.err = "none" THEN r.arm ELSE action
      /\ lastOp' = "select"
      /\ reads'  = IF reads < 2 THEN reads + 1 ELSE reads
      /\ cycle'  = IF cycle >= 0 /\ lastOp # "select" THEN cycle ELSE -1
      /\ UNCHANGED <<counts, values, arg_n, arg_arm, fedN, fedSum>>

DoUpdate(chosen_arm, reward) ==
  LET u   == update(counts, values, chosen_arm, reward)
      arm == Resolve(counts, chosen_arm)
  IN  /\ counts' = u.counts
      /\ values' = u.values
      /\ err'    = u.err
      /\ lastOp' = "update"
      /\ arg_arm' = chosen_arm
      /\ reads'  = 0
      /\ cycle'  = IF /\ cycle >= 0 /\ lastOp = "select" /\ err = "none"
                      /\ chosen_arm = action /\ u.err = "none"
                   THEN cycle + 1 ELSE -1
      /\ fedN'   = IF u.err = "none" THEN [fedN EXCEPT ![arm] = @ + 1] ELSE fedN
      /\ fedSum' = IF u.err = "none"
                   THEN [fedSum EXCEPT ![arm] = RatAdd(@, reward)] ELSE fedSum
      /\ UNCHANGED <<arg_n, action>>

----------------------------------------------------------------------------
(* Spec: an agent driven by an arbitrary caller *)

\* nothing evaluated yet: success / bandit_success and AB_success are unset,
\* no A/B arm has been picked, neither treatment has an A/B evaluation
BaseInit == [success |-> "unset", AB_arm |-> -1, AB_success |-> "unset",
             evals |-> [k \in 0..1 |-> 0]]

\* no reward fed yet: the value is 0.0 under every rule
MeanInit == [n |-> 0, reward |-> Zero, code |-> Zero, inc |-> Zero,
             fcode |-> Zero, finc |-> Zero]

NArmsInputs == -1..MaxArms
\* the indices a caller passes to update: every position of the list, every
\* negative index Python accepts, and the first index beyond either end
IndexInputs(c) == -(NArms(c) + 1)..NArms(c)

Init ==
  /\ \E n_arms \in NArmsInputs :
       /\ counts = initialize_counts(n_arms)
       /\ values = initialize_values(n_arms)
       /\ arg_n  = n_arms
       /\ fedN   = [col \in 0..(n_arms - 1) |-> 0]
       /\ fedSum = [col \in 0..(n_arms - 1) |-> Zero]
  /\ lastOp = "init"
  /\ err = "none"
  /\ action = -1
  /\ arg_arm = 0
  /\ reads = 0
  /\ cycle = 0
  /\ pc = "api"
  /\ mode = "api"
  /\ trials = 0
  /\ arm_labels = <<>>
  /\ i = 0
  /\ e = "none"
  /\ bandit_score = 0
  /\ AB_score = 0
  /\ score0 = <<0, 0>>
  /\ mean = MeanInit
  /\ base = BaseInit

Initialize ==
  /\ mode = "api"
  /\ \E n_arms \in NArmsInputs : DoInitialize(n_arms)
  /\ UNCHANGED harnessVars
  /\ UNCHANGED mean

SelectArm ==
  /\ mode = "api"
  /\ DoSelect
  /\ UNCHANGED harnessVars
  /\ UNCHANGED mean

Update ==
  /\ mode = "api"
  /\ Sum(counts) < MaxTotal
  /\ \E chosen_arm \in IndexInputs(counts), reward \in Rewards : DoUpdate(chosen_arm, reward)
  /\ UNCHANGED harnessVars
  /\ UNCHANGED mean

Next == Initialize \/ SelectArm \/ Update

Spec == Init /\ [][Next]_vars

----------------------------------------------------------------------------
(* SimpleEmergency *)

emergency_type == {"stab", "gunshot"}

\* random.random(): the unit interval cut into hundredths; draw k stands for
\* a value inside (k/100, (k+1)/100)
Draws == 0..99

\* the number each branch of apply_treatment compares the draw with, in hundredths
Threshold(etype, treatment) ==
  CASE etype = "stab"    /\ treatment = "basic"    -> 60
    [] etype = "stab"    /\ treatment = "advanced" -> 50
    [] etype = "gunshot" /\ treatment = "basic"    -> 75
    [] etype = "gunshot" /\ treatment = "advanced" -> 45
    [] OTHER -> -1

\* the docstring of apply_treatment: P(survive | (emergency_type, treatment)),
\* in hundredths
Documented(etype, treatment) ==
  CASE etype = "stab"    /\ treatment = "basic"    -> 60
    [] etype = "stab"    /\ treatment = "advanced" -> 50
    [] etype = "gunshot" /\ treatment = "basic"    -> 75
    [] etype = "gunshot" /\ treatment = "advanced" -> 45

\* SimpleEmergency.apply_treatment: "True", "False", or "None" when no branch
\* matches the treatment and the method falls off its end
apply_treatment(etype, treatment, draw) ==
  IF Threshold(etype, treatment) = -1 THEN "None"
  ELSE IF draw >= Threshold(etype, treatment) THEN "True"   \* random.random() > p
  ELSE "False"

\* `if success:`
Truthy(x) == x = "True"

----------------------------------------------------------------------------
(* SpecRun: one call of train_UCB1(trials, arm_labels) or of bandit_vs_AB() *)

Label(k) == IF k = 0 THEN "basic" ELSE IF k = 1 THEN "advanced" ELSE "other"

\* the lists train_UCB1 is called with: the first n of basic, advanced, other, ...
LabelLists == {[k \in 0..(n - 1) |-> Label(k)] : n \in 0..MaxArms}

treatments == [k \in 0..1 |-> Label(k)]

\* bandit_vs_AB sets trials = 1000; the model runs it with MaxTrials
InitRun ==
  /\ \/ /\ mode = "train"
        /\ trials \in 0..MaxTrials
        /\ arm_labels \in LabelLists
     \/ /\ mode = "AB"
        /\ trials = MaxTrials
        /\ arm_labels = treatments
  /\ counts = initialize_counts(NArms(arm_labels))
  /\ values = initialize_values(NArms(arm_labels))
  /\ arg_n  = NArms(arm_labels)
  /\ fedN   = [col \in DOMAIN arm_labels |-> 0]
  /\ fedSum = [col \in DOMAIN arm_labels |-> Zero]
  /\ lastOp = "init"
  /\ err = "none"
  /\ action = -1
  /\ arg_arm = 0
  /\ reads = 0
  /\ cycle = 0
  /\ pc = "loop"
  /\ i = 0
  /\ e = "none"
  /\ bandit_score = 0
  /\ AB_score = 0
  /\ score0 = <<0, 0>>
  /\ mean = MeanInit
  /\ base = BaseInit

\* for _ in range(trials): e = SimpleEmergency()   /   return bandit
TrainLoop ==
  /\ mode = "train" /\ pc = "loop"
  /\ IF i < trials
     THEN /\ e' \in emergency_type
          /\ pc' = "select"
     ELSE /\ pc' = "done"
          /\ e' = e
  /\ UNCHANGED <<mode, trials, arm_labels, i, bandit_score, AB_score, score0>>
  /\ UNCHANGED agentVars
  /\ UNCHANGED mean
  /\ UNCHANGED base

\* action = bandit.select_arm()
TrainSelect ==
  /\ mode = "train" /\ pc = "select"
  /\ DoSelect
  /\ pc' = IF err' = "none" THEN "treat" ELSE "error"
  /\ UNCHANGED <<mode, trials, arm_labels, i, e, bandit_score, AB_score, score0>>
  /\ UNCHANGED mean
  /\ UNCHANGED base

\* a training step that updates the agent only on success
TrainTreatSuccessOnly ==
  /\ mode = "train" /\ pc = "treat"
  /\ \E draw \in Draws :
       LET success == apply_treatment(e, arm_labels[action], draw)
       IN  /\ IF Truthy(success) THEN DoUpdate(action, One) ELSE UNCHANGED agentVars
           /\ base' = [base EXCEPT !.success = success]
  /\ i' = i + 1
  /\ pc' = "loop"
  /\ UNCHANGED <<mode, trials, arm_labels, e, bandit_score, AB_score, score0>>
  /\ UNCHANGED mean

\* success = e.apply_treatment(arm_labels[action]); bandit.update(action, 1.0 or 0.0)
TrainTreat ==
  /\ mode = "train" /\ pc = "treat"
  /\ \E draw \in Draws :
       LET success == apply_treatment(e, arm_labels[action], draw)
       IN  /\ DoUpdate(action, IF Truthy(success) THEN One ELSE Zero)
           /\ base' = [base EXCEPT !.success = success]
  /\ i' = i + 1
  /\ pc' = "loop"
  /\ UNCHANGED <<mode, trials, arm_labels, e, bandit_score, AB_score, score0>>
  /\ UNCHANGED mean

\* for i in range(trials): e = SimpleEmergency()   /   return bandit_score, AB_score
ABLoop ==
  /\ mode = "AB" /\ pc = "loop"
  /\ IF i < trials
     THEN /\ e' \in emergency_type
          /\ pc' = "select"
     ELSE /\ pc' = "done"
          /\ e' = e
  /\ score0' = <<bandit_score, AB_score>>
  /\ UNCHANGED <<mode, trials, arm_labels, i, bandit_score, AB_score>>
  /\ UNCHANGED agentVars
  /\ UNCHANGED mean
  /\ UNCHANGED base

\* action = bandit.select_arm(); bandit_treatment = treatments[action]
ABSelect ==
  /\ mode = "AB" /\ pc = "select"
  /\ DoSelect
  /\ pc' = IF err' = "none" /\ action' \in DOMAIN arm_labels THEN "treat" ELSE "error"
  /\ UNCHANGED <<mode, trials, arm_labels, i, e, bandit_score, AB_score, score0>>
  /\ UNCHANGED mean
  /\ UNCHANGED base

\* a bandit step that adds a point to bandit_score in every trial
ABBanditCountsTrials ==
  /\ mode = "AB" /\ pc = "treat"
  /\ \E draw \in Draws :
       LET bandit_success == apply_treatment(e, arm_labels[action], draw)
       IN  /\ base' = [base EXCEPT !.success = bandit_success]
           /\ DoUpdate(action, IF Truthy(bandit_success) THEN One ELSE Zero)
           /\ bandit_score' = bandit_score + 1
  /\ pc' = "baseline"
  /\ UNCHANGED <<mode, trials, arm_labels, i, e, AB_score, score0>>
  /\ UNCHANGED mean

\* bandit_success = e.apply_treatment(bandit_treatment); update; bandit_score += 1
ABBandit ==
  /\ mode = "AB" /\ pc = "treat"
  /\ \E draw \in Draws :
       LET bandit_success == apply_treatment(e, arm_labels[action], draw)
       IN  /\ base' = [base EXCEPT !.success = bandit_success]
           /\ IF Truthy(bandit_success)
              THEN /\ DoUpdate(action, One)
                   /\ bandit_score' = bandit_score + 1
              ELSE /\ DoUpdate(action, Zero)
                   /\ bandit_score' = bandit_score
  /\ pc' = "baseline"
  /\ UNCHANGED <<mode, trials, arm_labels, i, e, AB_score, score0>>
  /\ UNCHANGED mean

\* a baseline step that takes a point off for a failure
ABBaselinePenalty ==
  /\ mode = "AB" /\ pc = "baseline"
  /\ \E draw \in Draws :
       LET AB_arm       == IF (i % 2) = 0 THEN 0 ELSE 1
           AB_treatment == arm_labels[AB_arm]
           AB_success   == apply_treatment(e, AB_treatment, draw)
       IN  /\ AB_score' = IF Truthy(AB_success) THEN AB_score + 1 ELSE AB_score - 1
           /\ base' = [base EXCEPT !.AB_arm = AB_arm, !.AB_success = AB_success,
                                   !.evals[AB_arm] = @ + 1]
  /\ i' = i + 1
  /\ pc' = "loop"
  /\ UNCHANGED <<mode, trials, arm_labels, e, bandit_score, score0>>
  /\ UNCHANGED agentVars
  /\ UNCHANGED mean

\* a baseline that evaluates the arm the bandit chose in this trial
ABBaselineFollowsBandit ==
  /\ mode = "AB" /\ pc = "baseline"
  /\ \E draw \in Draws :
       LET AB_arm       == action
           AB_treatment == arm_labels[AB_arm]
           AB_success   == apply_treatment(e, AB_treatment, draw)
       IN  /\ AB_score' = IF Truthy(AB_success) THEN AB_score + 1 ELSE AB_score
           /\ base' = [base EXCEPT !.AB_arm = AB_arm, !.AB_success = AB_success,
                                   !.evals[AB_arm] = @ + 1]
  /\ i' = i + 1
  /\ pc' = "loop"
  /\ UNCHANGED <<mode, trials, arm_labels, e, bandit_score, score0>>
  /\ UNCHANGED agentVars
  /\ UNCHANGED mean

\* a paired baseline: when it evaluates the bandit's arm it reuses the bandit's outcome
ABBaselineSharedDraw ==
  /\ mode = "AB" /\ pc = "baseline"
  /\ \E draw \in Draws :
       LET AB_arm       == IF (i % 2) = 0 THEN 0 ELSE 1
           AB_treatment == arm_labels[AB_arm]
           AB_success   == IF AB_arm = action THEN base.success ELSE apply_treatment(e, AB_treatment, draw)
       IN  /\ AB_score' = IF Truthy(AB_success) THEN AB_score + 1 ELSE AB_score
           /\ base' = [base EXCEPT !.AB_arm = AB_arm, !.AB_success = AB_success,
                                   !.evals[AB_arm] = @ + 1]
  /\ i' = i + 1
  /\ pc' = "loop"
  /\ UNCHANGED <<mode, trials, arm_labels, e, bandit_score, score0>>
  /\ UNCHANGED agentVars
  /\ UNCHANGED mean

\* the A/B arm of the trial: treatments[i % 2], scored on a draw of its own
ABBaseline ==
  /\ mode = "AB" /\ pc = "baseline"
  /\ \E draw \in Draws :
       LET AB_arm       == IF (i % 2) = 0 THEN 0 ELSE 1
           AB_treatment == arm_labels[AB_arm]
           AB_success   == apply_treatment(e, AB_treatment, draw)
       IN  /\ AB_score' = IF Truthy(AB_success) THEN AB_score + 1 ELSE AB_score
           /\ base' = [base EXCEPT !.AB_arm = AB_arm, !.AB_success = AB_success,
                                   !.evals[AB_arm] = @ + 1]
  /\ i' = i + 1
  /\ pc' = "loop"
  /\ UNCHANGED <<mode, trials, arm_labels, e, bandit_score, score0>>
  /\ UNCHANGED agentVars
  /\ UNCHANGED mean

NextRun ==
  \/ TrainLoop \/ TrainSelect \/ TrainTreat
  \/ ABLoop \/ ABSelect \/ ABBandit \/ ABBaseline

SpecRun == InitRun /\ [][NextRun]_vars

----------------------------------------------------------------------------
(* SpecRules: the update rule of one arm, followed in exact arithmetic and   *)
(* in floats, next to the incremental-mean rule on the same rewards          *)

InitRules ==
  /\ mean = MeanInit
  /\ base = BaseInit
  /\ counts = initialize_counts(1)
  /\ values = initialize_values(1)
  /\ arg_n  = 1
  /\ fedN   = [col \in 0..0 |-> 0]
  /\ fedSum = [col \in 0..0 |-> Zero]
  /\ lastOp = "init"
  /\ err = "none"
  /\ action = -1
  /\ arg_arm = 0
  /\ reads = 0
  /\ cycle = 0
  /\ pc = "rules"
  /\ mode = "rules"
  /\ trials = 0
  /\ arm_labels = <<>>
  /\ i = 0
  /\ e = "none"
  /\ bandit_score = 0
  /\ AB_score = 0
  /\ score0 = <<0, 0>>

\* bandit.update(0, reward): the agent's own arithmetic is the exact one of
\* update; mean follows the same call under the four rules
Feed ==
  /\ mode = "rules"
  /\ mean.n < MaxFeed
  /\ \E reward \in Rewards :
       /\ DoUpdate(0, reward)
       /\ mean' = [n      |-> mean.n + 1,
                   reward |-> reward,
                   code   |-> new_value(mean.n + 1, mean.code, reward),
                   inc    |-> incremental_mean(mean.n + 1, mean.inc, reward),
                   fcode  |-> new_valueFloat(mean.n + 1, mean.fcode, reward),
                   finc   |-> incremental_meanFloat(mean.n + 1, mean.finc, reward)]
  /\ UNCHANGED harnessVars

NextRules == Feed

SpecRules == InitRules /\ [][NextRules]_vars

----------------------------------------------------------------------------
(* Properties *)

Arms == DOMAIN counts
AllTried == \A a \in Arms : counts[a] >= 1
Score(a) == UCBScore(values[a], Sum(counts), counts[a])

\* C1 (Spec): while the caller follows every select_arm() by one update of the
\* arm it returned, the first K select_arm() calls on a fresh agent with
\* K >= 1 arms return 0, 1, ..., K-1 in that order.
ColdStartOrder ==
  (NArms(counts) >= 1 /\ lastOp = "select" /\ cycle >= 0 /\ cycle < NArms(counts))
    => (err = "none" /\ action = cycle)

ColdStartOrderWitness ==
  /\ NArms(counts) >= 2
  /\ lastOp = "select" /\ cycle = NArms(counts) - 1 /\ action = cycle
  /\ \E a \in Arms : values[a] = Rat(1, 2)

\* C2 (Spec): whenever some arm has count 0, select_arm() returns the lowest
\* index with count 0, whatever the values are and however the counts came about.
ColdStartRule ==
  (lastOp = "select" /\ \E a \in Arms : counts[a] = 0)
    => /\ err = "none"
       /\ action \in Arms
       /\ counts[action] = 0
       /\ \A b \in Arms : b < action => counts[b] # 0

ColdStartRuleWitness ==
  /\ lastOp = "select" /\ err = "none"
  /\ action \in Arms /\ action >= 1 /\ counts[action] = 0
  /\ \E b \in Arms : b > action /\ counts[b] >= 2 /\ values[b] = One

\* C3 (Spec): a select_arm() call leaves every count and value as it was, and
\* a call that directly follows a successful select_arm() returns the same arm.
SelectArmIsPureRead ==
  [][(lastOp' = "select")
       => /\ counts' = counts
          /\ values' = values
          /\ (reads >= 1 /\ err = "none") => (err' = "none" /\ action' = action)]_vars

SelectArmIsPureReadWitness ==
  /\ reads = 2 /\ err = "none"
  /\ NArms(counts) >= 2 /\ AllTried
  /\ action >= 1

\* C4 (Spec): for every arm, count is the number of rewards fed to it since
\* initialization and value is their arithmetic mean, exactly, however the
\* updates of the arms are interleaved.
IncrementalMean ==
  \A a \in Arms :
    /\ counts[a] = fedN[a]
    /\ fedN[a] >= 1 => values[a] = Rat(fedSum[a].num, fedSum[a].den * fedN[a])

IncrementalMeanWitness ==
  \E a, b \in Arms :
    /\ a # b
    /\ fedN[a] = 3 /\ fedSum[a] = Rat(2, 1) /\ values[a] = Rat(2, 3)
    /\ fedN[b] = 1 /\ fedSum[b] = Rat(1, 2)

\* C5 (Spec): when every arm has count >= 1, select_arm() returns an arm of
\* maximal UCB score, and the lowest-indexed one among those of maximal score.
MaxScoreLowestIndex ==
  (lastOp = "select" /\ NArms(counts) >= 1 /\ AllTried)
    => /\ err = "none"
       /\ action \in Arms
       /\ \A b \in Arms : Score(b) <= Score(action)
       /\ \A b \in Arms : b < action => Score(b) < Score(action)

MaxScoreLowestIndexWitness ==
  /\ lastOp = "select" /\ err = "none" /\ AllTried
  /\ action \in Arms /\ action >= 1
  /\ \E b \in Arms : b > action /\ Score(b) = Score(action)

\* C6 (SpecRun): in bandit_vs_AB both counters are integers within
\* [0, completed trials] between trials and within [0, trials] at the return;
\* inside a trial each is at most 1 above its value at the start of the trial,
\* and no step lowers a counter.
ScoresInRange ==
  mode = "AB" =>
    /\ bandit_score \in Nat /\ AB_score \in Nat
    /\ i <= trials
    /\ pc \in {"loop", "select", "treat", "done"} => (bandit_score <= i /\ AB_score <= i)
    /\ pc = "baseline" => (bandit_score <= i + 1 /\ AB_score <= i)
    /\ pc = "done" => (i = trials /\ bandit_score <= trials /\ AB_score <= trials)
    /\ bandit_score - score0[1] \in {0, 1}
    /\ AB_score - score0[2] \in {0, 1}

ScoresGrowByOne ==
  /\ bandit_score' \in {bandit_score, bandit_score + 1}
  /\ AB_score' \in {AB_score, AB_score + 1}

ComparisonBounded == []ScoresInRange /\ [][ScoresGrowByOne]_vars

ComparisonBoundedWitness ==
  /\ mode = "AB" /\ pc = "done"
  /\ bandit_score = trials
  /\ AB_score >= 1 /\ AB_score < trials

\* C7 (SpecRun): in train_UCB1 and in bandit_vs_AB, select_arm() of trial i is
\* called with sum(counts) = i, the update that follows adds one to the count
\* of exactly the arm select_arm() returned, and at the return sum(counts) = trials.
TrialsInStep ==
  /\ pc \in {"loop", "select", "treat"} => (Sum(counts) = i /\ cycle = i)
  /\ pc = "treat" => (lastOp = "select" /\ err = "none" /\ action \in Arms)
  /\ pc = "baseline" => (Sum(counts) = i + 1 /\ cycle = i + 1)
  /\ pc = "done" => (i = trials /\ Sum(counts) = trials /\ cycle = trials)

UpdateOfSelected ==
  (pc = "treat") =>
    /\ arg_arm' = action
    /\ err' = "none"
    /\ counts' = [counts EXCEPT ![action] = @ + 1]
    /\ \A a \in Arms : a # action => values'[a] = values[a]

SequentialTrials == []TrialsInStep /\ [][UpdateOfSelected]_vars

SequentialTrialsWitness ==
  /\ mode = "train" /\ pc = "done" /\ trials >= 4
  /\ NArms(counts) = 2
  /\ \E a \in Arms : counts[a] = 3 /\ values[a] = Rat(1, 3)

\* C8 (Spec): an update whose index lies outside [0, K) raises, and changes no
\* count and no value.
InvalidArmIndexRaises ==
  [][(lastOp' = "update" /\ arg_arm' \notin 0..(NArms(counts) - 1))
       => (err' # "none" /\ counts' = counts /\ values' = values)]_vars

\* C9 (Spec): UCB1(n_arms) with n_arms < 1 raises, so that no agent without
\* arms exists and select_arm() never runs on an empty arm list.
DegenerateConfigurationRaises ==
  /\ (lastOp = "init" /\ arg_n < 1) => err # "none"
  /\ lastOp = "select" => NArms(counts) >= 1

\* C10 (Spec), as amended: with K >= 2 arms that all have count >= 1, one more
\* pull of arm a with its value and the other counts unchanged (count + 1,
\* total + 1) strictly lowers the UCB score of arm a.
ConfidenceDecay ==
  (NArms(counts) >= 2 /\ AllTried)
    => \A a \in Arms :
         UCBScore(values[a], Sum(counts) + 1, counts[a] + 1) < Score(a)

ConfidenceDecayWitness ==
  /\ NArms(counts) >= 2 /\ AllTried
  /\ lastOp = "select" /\ err = "none"
  /\ \E a \in Arms : counts[a] >= 3 /\ action = a

\* C10 as stated, for every K >= 1.
ConfidenceDecayEveryK ==
  (NArms(counts) >= 1 /\ AllTried)
    => \A a \in Arms :
         UCBScore(values[a], Sum(counts) + 1, counts[a] + 1) < Score(a)

\* C11 (Spec): initialize(K) called in any state leaves exactly K arms, each
\* with count 0 and value 0.0, and the cold start begins again: while the
\* caller keeps to select-then-update, after c <= K pairs exactly the arms
\* 0..c-1 have count 1 and the others count 0.
ReinitializeIsFresh ==
  /\ (lastOp = "initialize" /\ arg_n >= 0)
       => /\ NArms(counts) = arg_n
          /\ DOMAIN values = DOMAIN counts
          /\ \A a \in Arms : counts[a] = 0 /\ values[a] = Zero
  /\ (cycle >= 0 /\ cycle <= NArms(counts))
       => \A a \in Arms : counts[a] = (IF a < cycle THEN 1 ELSE 0)

\* initialize(3) called after an update(-1, ...) call, all arms cleared
ReinitializeIsFreshWitness ==
  /\ lastOp = "initialize" /\ arg_n = 3 /\ arg_arm = -1
  /\ NArms(counts) = 3
  /\ \A a \in Arms : counts[a] = 0 /\ values[a] = Zero

\* C12 (Spec): no call divides by zero; update divides by a count that is
\* already >= 1; and whenever select_arm() gets past the cold-start loop there
\* are K >= 1 arms, all with count >= 1, total >= K, and the call returns an arm.
NoUndefinedArithmetic ==
  /\ err # "ZeroDivisionError"
  /\ (lastOp = "update" /\ err = "none") => counts[Resolve(counts, arg_arm)] >= 1
  /\ (lastOp = "select" /\ ~(\E a \in Arms : counts[a] = 0))
       => /\ NArms(counts) >= 1
          /\ AllTried
          /\ Sum(counts) >= NArms(counts)
          /\ err = "none"

\* C13 (Spec): update(i, reward) with i in [0, K) adds exactly 1 to count[i]
\* and leaves the number of arms and every other arm's count and value as they
\* were; no select_arm or update call lowers a count or changes the number of
\* arms, and a count that was positive becomes 0 only by initialize.
UpdateFrame ==
  (lastOp' = "update" /\ arg_arm' \in 0..(NArms(counts) - 1))
    => /\ DOMAIN counts' = DOMAIN counts
       /\ DOMAIN values' = DOMAIN values
       /\ counts'[arg_arm'] = counts[arg_arm'] + 1
       /\ \A a \in Arms : a # arg_arm' => (counts'[a] = counts[a] /\ values'[a] = values[a])

CountsOnlyGrow ==
  /\ lastOp' # "initialize"
       => /\ DOMAIN counts' = DOMAIN counts
          /\ \A a \in Arms : counts'[a] >= counts[a]
  /\ (\E a \in Arms \cap DOMAIN counts' : counts[a] > 0 /\ counts'[a] = 0)
       => lastOp' = "initialize"

StatisticsChangeOnlyByUpdate == [][UpdateFrame /\ CountsOnlyGrow]_vars

StatisticsChangeOnlyByUpdateWitness ==
  /\ lastOp = "update" /\ err = "none" /\ arg_arm = 1
  /\ NArms(counts) = 3
  /\ counts[1] = 2 /\ values[1] = Rat(1, 2)
  /\ counts[0] = 1 /\ values[0] = One
  /\ counts[2] = 1 /\ values[2] = Zero

\* C14 (SpecRules): in exact arithmetic the code's rule
\* ((n-1)/n)*value + (1/n)*reward and the incremental-mean rule
\* value + (reward - value)/n give the same value after every update, so
\* both agents hold the same (count, value); the value is the mean of the
\* rewards fed.
RulesAgreeExactly ==
  /\ mean.code = mean.inc
  /\ mean.n = counts[0]
  /\ mean.code = values[0]
  /\ mean.n >= 1 => mean.code = RatMul(fedSum[0], Rat(1, mean.n))

RulesAgreeExactlyWitness ==
  /\ lastOp = "update"
  /\ mean.n = 3
  /\ mean.reward = Zero
  /\ mean.code = Rat(1, 6)
  /\ mean.inc = Rat(1, 6)

\* C14 as stated, for the floats the code computes with: the two rules give
\* identical values after every update.
RulesAgreeInFloats == mean.fcode = mean.finc

\* C15 (SpecRun): in the comparison loop the baseline arm of trial i is
\* i mod 2, whatever the agent holds and whatever was drawn before; after i
\* completed trials arm 0 has had ceil(i/2) baseline evaluations and arm 1
\* floor(i/2).
AlternatingBaseline ==
  mode = "AB" =>
    /\ base.evals[0] = (i + 1) \div 2
    /\ base.evals[1] = i \div 2
    /\ base.AB_arm = (IF i = 0 THEN -1 ELSE (i - 1) % 2)

AlternatingBaselineWitness ==
  /\ mode = "AB" /\ pc = "loop" /\ i = 3
  /\ base.AB_arm = 0
  /\ base.evals[0] = 2 /\ base.evals[1] = 1
  /\ counts[0] = 1 /\ counts[1] = 2

\* C16 (SpecRun): in one trial of the comparison the bandit's outcome and
\* the baseline's outcome are separate draws: whatever the bandit drew and
\* whichever arms the two evaluate, success and failure are both open to each
\* of them; the agent's update takes the bandit's own outcome only; the
\* baseline's evaluation leaves counts, values and bandit_score alone.
BothOutcomesOpen ==
  /\ (mode = "AB" /\ pc = "treat")
       => \A outcome \in {"True", "False"} :
            \E draw \in Draws : apply_treatment(e, arm_labels[action], draw) = outcome
  /\ (mode = "AB" /\ pc = "baseline")
       => /\ ENABLED (ABBaseline /\ base'.AB_success = "True")
          /\ ENABLED (ABBaseline /\ base'.AB_success = "False")

BanditUsesOwnDraw ==
  (mode = "AB" /\ pc = "treat" /\ pc' = "baseline")
    => LET reward == IF base'.success = "True" THEN One ELSE Zero
       IN  /\ base'.success \in {"True", "False"}
           /\ counts' = [counts EXCEPT ![action] = @ + 1]
           /\ values' = [values EXCEPT
                           ![action] = new_value(counts[action] + 1, @, reward)]
           /\ bandit_score' = bandit_score + reward.num
           /\ AB_score' = AB_score
           /\ base'.AB_success = base.AB_success

BaselineFrame ==
  (mode = "AB" /\ pc = "baseline" /\ pc' = "loop")
    => /\ counts' = counts
       /\ values' = values
       /\ bandit_score' = bandit_score
       /\ base'.success = base.success
       /\ AB_score' = AB_score + (IF base'.AB_success = "True" THEN 1 ELSE 0)

IndependentScoring ==
  [][BothOutcomesOpen /\ BanditUsesOwnDraw /\ BaselineFrame]_vars

IndependentScoringWitness ==
  /\ mode = "AB" /\ pc = "loop" /\ i = 1
  /\ action = 0 /\ base.AB_arm = 0
  /\ base.success = "True" /\ base.AB_success = "False"
  /\ bandit_score = 1 /\ AB_score = 0
  /\ counts[0] = 1 /\ values[0] = One

\* C17 (SpecRun): whenever the harness is about to evaluate a treatment,
\* apply_treatment returns True for exactly the documented share of the
\* draws, P(survive | (emergency_type, treatment)), and every evaluation
\* returns a boolean.
RewardMatchesDocstring ==
  /\ (pc = "treat" /\ Threshold(e, arm_labels[action]) # -1)
       => Cardinality({draw \in Draws :
                         apply_treatment(e, arm_labels[action], draw) = "True"})
            = Documented(e, arm_labels[action])
  /\ base.success \in {"unset", "True", "False"}
  /\ base.AB_success \in {"unset", "True", "False"}

\* C18 (Spec): an agent with at least one arm answers every select_arm()
\* with an index of one of its arms, and without an exception.
SelectArmInRange ==
  (lastOp = "select" /\ NArms(counts) >= 1)
    => /\ err = "none"
       /\ action \in 0..(NArms(counts) - 1)

SelectArmInRangeWitness ==
  /\ lastOp = "select" /\ err = "none"
  /\ NArms(counts) = 3 /\ AllTried
  /\ action = 2

\* sum over the arms of count[i] * value[i]
TotalReward ==
  LET acc[k \in 0..NArms(counts)] ==
        IF k = 0 THEN Zero
        ELSE RatAdd(acc[k - 1], RatMul(Rat(counts[k - 1], 1), values[k - 1]))
  IN  acc[NArms(counts)]

\* C19 (SpecRun): in the comparison loop, after every completed trial,
\* bandit_score equals the sum over the arms of count[i] * value[i].
ScoreMatchesStatistics ==
  (mode = "AB" /\ pc \in {"loop", "done"}) => TotalReward = Rat(bandit_score, 1)

ScoreMatchesStatisticsWitness ==
  /\ mode = "AB" /\ pc = "loop" /\ i = 3
  /\ bandit_score = 2
  /\ counts[0] = 2 /\ values[0] = Rat(1, 2)
  /\ counts[1] = 1 /\ values[1] = One

\* C20 (Spec): every arm's value lies in [0, 1], and is 0.0 while the arm's
\* count is 0.
ValuesInUnitInterval ==
  \A a \in Arms :
    /\ RatLeq(Zero, values[a])
    /\ RatLeq(values[a], One)
    /\ counts[a] = 0 => values[a] = Zero

ValuesInUnitIntervalWitness ==
  /\ lastOp = "update" /\ err = "none"
  /\ NArms(counts) = 2
  /\ counts[0] = 0 /\ values[0] = Zero
  /\ counts[1] = 3 /\ values[1] = Rat(5, 6)

====
